---- MODULE Spec2Model ----
(***************************************************************************)
(* Model of the researcher recommendation engine of TTUPublication          *)
(* (recommend_researchers.py).                                              *)
(*                                                                          *)
(* Text is a sequence of symbols: a symbol is a quote character, a comma,   *)
(* a blank, or a whole word (with its case).  Python's str.lower, str.strip *)
(* and str.split are computed on these sequences.                           *)
(*                                                                          *)
(* Scores are rationals <<n, d>> in lowest terms with d > 0 (Python floats  *)
(* without rounding).                                                       *)
(*                                                                          *)
(* scikit-learn is outside the repository.  The title vectorizer is         *)
(* modelled by what it does to a text (lower-case, tokenise, drop stop      *)
(* words and out-of-vocabulary words), and the cosine similarity of two     *)
(* TF-IDF vectors by its value where that is fixed (0 for a zero vector or  *)
(* disjoint words, 1 for proportional vectors) and everywhere else by the   *)
(* norm ratios of the fitted vectorizer, which the fitted weights decide    *)
(* and which are chosen when the vectorizer is fitted.  The theme           *)
(* classifier is a fixed ranking of the labels by the words of the text.    *)
(***************************************************************************)
EXTENDS Integers, Sequences, FiniteSets, TLC

VARIABLES
    grants_file,          \* rows of grants_final.tsv, fields as written
    grants_df,            \* engine.grants_df: the loaded corpus table
    researcher_profiles,  \* engine.researcher_profiles: keys in insertion order, profile per key
    title_tfidf,          \* engine.title_tfidf: the fitted title vectorizer
    title_to_idx,         \* engine.title_to_idx
    logistic_model,       \* the loaded theme classifier artifact
    request,              \* arguments of the last recommend call
    predicted_themes,     \* recommend's local: what _get_top_predicted_themes returned, if called
    scores,               \* what _calculate_researcher_score returned in the last call's loop
    result,               \* what the last recommend call returned
    files,                \* which files exist: grants_final.tsv, the model artifacts
    raised,               \* the exception the last constructor or request handler raised, if any
    response              \* the last HTTP response of the server

vars == <<grants_file, grants_df, researcher_profiles, title_tfidf, title_to_idx,
          logistic_model, request, predicted_themes, scores, result,
          files, raised, response>>

-----------------------------------------------------------------------------
(* Bounds of the model *)

MaxRecords == 2
MaxTopN == 3

(* Program constants *)

current_year == 2026
RecencyWindow == 3
MaxFeatures == 500
ThemeWeight == 10
RecencyWeight == 5
ContributionScale == 20
TopK == 2

-----------------------------------------------------------------------------
(* Rationals *)

RECURSIVE GCD(_, _)
GCD(a, b) == IF b = 0 THEN a ELSE GCD(b, a % b)

Abs(n) == IF n < 0 THEN -n ELSE n

Rat(n, d) == LET g == GCD(Abs(n), d) IN <<n \div g, d \div g>>

RInt(n) == <<n, 1>>
RZero == <<0, 1>>
ROne == <<1, 1>>

RAdd(a, b) == Rat(a[1] * b[2] + b[1] * a[2], a[2] * b[2])
RMul(a, b) == Rat(a[1] * b[1], a[2] * b[2])
RDivInt(a, k) == Rat(a[1], a[2] * k)
RLe(a, b) == a[1] * b[2] <= b[1] * a[2]
RLt(a, b) == a[1] * b[2] < b[1] * a[2]
RMax(a, b) == IF RLt(a, b) THEN b ELSE a

RECURSIVE RSum(_)
RSum(s) == IF s = <<>> THEN RZero ELSE RAdd(Head(s), RSum(Tail(s)))

RECURSIVE RMaxSeq(_)
RMaxSeq(s) == IF s = <<>> THEN RZero ELSE RMax(Head(s), RMaxSeq(Tail(s)))

-----------------------------------------------------------------------------
(* Text: Python str operations on sequences of symbols *)

DQ == "\""
SQ == "'"
COMMA == ","
BLANK == " "

LowerSym(c) ==
    CASE c = "Quantum" -> "quantum"
      [] c = "Error" -> "error"
      [] c = "Survey" -> "survey"
      [] c = "The" -> "the"
      [] OTHER -> c

Lower(s) == [i \in 1..Len(s) |-> LowerSym(s[i])]

RECURSIVE LStrip(_, _)
LStrip(s, chars) ==
    IF s # <<>> /\ Head(s) \in chars THEN LStrip(Tail(s), chars) ELSE s

RECURSIVE RStrip(_, _)
RStrip(s, chars) ==
    IF s # <<>> /\ s[Len(s)] \in chars THEN RStrip(SubSeq(s, 1, Len(s) - 1), chars) ELSE s

Strip(s, chars) == RStrip(LStrip(s, chars), chars)

RECURSIVE Split(_, _)
Split(s, sep) ==
    IF \E i \in 1..Len(s) : s[i] = sep
    THEN LET i == CHOOSE j \in 1..Len(s) : s[j] = sep /\ \A k \in 1..(j - 1) : s[k] # sep
         IN <<SubSeq(s, 1, i - 1)>> \o Split(SubSeq(s, i + 1, Len(s)), sep)
    ELSE <<s>>

Range(s) == {s[i] : i \in 1..Len(s)}

DictGet(d, k, default) == IF k \in DOMAIN d THEN d[k] ELSE default

DictPut(d, k, v) == [x \in (DOMAIN d) \cup {k} |-> IF x = k THEN v ELSE d[x]]

EmptyDict == [x \in {} |-> 0]

-----------------------------------------------------------------------------
(* _load_grants_data: pandas.read_csv, the column renames and the strips *)

\* pandas' missing value: what read_csv gives for a field with no text (and for
\* the text NaN itself).
NaN == <<"NaN">>

\* read_csv takes the wrapping double quotes off a quoted field; a field without
\* text is missing.
ReadCsvField(f) ==
    IF f = <<>> THEN NaN
    ELSE IF Len(f) >= 2 /\ f[1] = DQ /\ f[Len(f)] = DQ THEN SubSeq(f, 2, Len(f) - 1)
    ELSE f

\* Series.str.strip: a missing value stays missing.
StrStrip(x, chars) == IF x = NaN THEN NaN ELSE Strip(x, chars)

\* str(x): the text of a missing value is nan.
Str(x) == IF x = NaN THEN <<"nan">> ELSE x

LoadRow(r) ==
    [ProposalNo  |-> ReadCsvField(r.Code),
     Year        |-> r.Time,
     Theme       |-> StrStrip(ReadCsvField(r.Theme), {SQ}),
     Title       |-> StrStrip(ReadCsvField(r.Title), {DQ}),
     Researchers |-> StrStrip(ReadCsvField(r.Authors), {SQ})]

_load_grants_data(file) == [i \in 1..Len(file) |-> LoadRow(file[i])]

-----------------------------------------------------------------------------
(* _build_researcher_profiles *)

\* [r.strip().strip("'") for r in str(row['Researchers']).split(',')]
ParseResearchers(field) ==
    LET parts == Split(Str(field), COMMA)
    IN  [i \in 1..Len(parts) |-> Strip(Strip(parts[i], {BLANK}), {SQ})]

EmptyProfile == [projects |-> <<>>, themes |-> <<>>, theme_counts |-> EmptyDict, titles |-> <<>>]

EmptyProfiles == [keys |-> <<>>, prof |-> EmptyDict]

\* contribution = 100.0 / num_researchers
Contribution(num_researchers) == Rat(100, num_researchers)

\* The body of the inner loop: one researcher of one row.
AppendProject(p, researcher, row, contribution) ==
    LET known == researcher \in DOMAIN p.prof
        old == IF known THEN p.prof[researcher] ELSE EmptyProfile
        new == [projects |-> Append(old.projects,
                                    [title |-> row.Title, theme |-> row.Theme,
                                     year |-> row.Year, contribution |-> contribution]),
                themes |-> Append(old.themes, row.Theme),
                theme_counts |-> DictPut(old.theme_counts, row.Theme,
                                         DictGet(old.theme_counts, row.Theme, 0) + 1),
                titles |-> Append(old.titles, row.Title)]
    IN  [keys |-> IF known THEN p.keys ELSE Append(p.keys, researcher),
         prof |-> DictPut(p.prof, researcher, new)]

RECURSIVE AppendResearchers(_, _, _, _)
AppendResearchers(p, researchers, row, contribution) ==
    IF researchers = <<>> THEN p
    ELSE AppendResearchers(AppendProject(p, Head(researchers), row, contribution),
                           Tail(researchers), row, contribution)

RECURSIVE BuildFrom(_, _)
BuildFrom(p, rows) ==
    IF rows = <<>> THEN p
    ELSE LET researchers == ParseResearchers(Head(rows).Researchers)
         IN  BuildFrom(AppendResearchers(p, researchers, Head(rows),
                                         Contribution(Len(researchers))),
                       Tail(rows))

_build_researcher_profiles(df) == BuildFrom(EmptyProfiles, df)

-----------------------------------------------------------------------------
(* _initialize_title_similarity: TfidfVectorizer(stop_words='english',      *)
(* max_features=500), fit_transform, title_to_idx                           *)

Punctuation == {DQ, SQ, COMMA, BLANK}
StopWords == {"the"}

\* The analyzer: lower-case, split into words, drop the stop words.
Tokenize(text) == SelectSeq(Lower(text), LAMBDA c : c \notin Punctuation /\ c \notin StopWords)

AllTitles(df) == [i \in 1..Len(df) |-> df[i].Title]

CorpusTokens(all_titles) == UNION {Range(Tokenize(all_titles[i])) : i \in 1..Len(all_titles)}

\* fit: every word of the corpus, cut to max_features words when there are more.
Vocabulary(all_titles) ==
    LET V == CorpusTokens(all_titles)
    IN  IF Cardinality(V) <= MaxFeatures THEN V
        ELSE CHOOSE S \in SUBSET V : Cardinality(S) = MaxFeatures

\* transform: term counts over the fitted vocabulary (out-of-vocabulary words dropped).
Bag(vocabulary, text) ==
    LET toks == Tokenize(text)
    IN  [w \in vocabulary |-> Cardinality({i \in 1..Len(toks) : toks[i] = w})]

IsZeroVector(b) == \A w \in DOMAIN b : b[w] = 0
Disjoint(a, b) == \A w \in DOMAIN a : a[w] = 0 \/ b[w] = 0
Proportional(a, b) == \A v \in DOMAIN a : \A w \in DOMAIN a : a[v] * b[w] = a[w] * b[v]

\* Two term-count vectors whose cosine depends on the fitted weights.
Partial(a, b) == ~IsZeroVector(a) /\ ~IsZeroVector(b) /\ ~Disjoint(a, b) /\ ~Proportional(a, b)

\* title_to_idx = {title: idx for idx, title in enumerate(all_titles)}: the last index wins.
TitleToIdx(all_titles) ==
    [t \in Range(all_titles) |->
        CHOOSE i \in 1..Len(all_titles) :
            all_titles[i] = t /\ \A j \in (i + 1)..Len(all_titles) : all_titles[j] # t]

\* The part of vector a on the words of vector b.
Restrict(a, b) == [w \in DOMAIN a |-> IF b[w] > 0 THEN a[w] ELSE 0]

\* |c| / |a| for the TF-IDF vectors of term counts c and a, c a part of a: 1 when
\* c is all of a, and below 1 by the fitted weights of the words c lacks.
NormRatio(tfidf, c, a) == IF c = a THEN ROne ELSE tfidf.weights[<<c, a>>]

\* cosine_similarity of the TF-IDF vectors of two texts under the fitted vectorizer.
\* For two titles that repeat no word, with c their common words,
\* dot(a, b) = |c|^2, so the cosine is (|c| / |a|) (|c| / |b|).
CosineOfCounts(tfidf, va, vb) ==
    IF IsZeroVector(va) \/ IsZeroVector(vb) \/ Disjoint(va, vb) THEN RZero
    ELSE IF Proportional(va, vb) THEN ROne
    ELSE RMul(NormRatio(tfidf, Restrict(va, vb), va),
              NormRatio(tfidf, Restrict(vb, va), vb))

cosine_similarity(tfidf, a, b) ==
    CosineOfCounts(tfidf, Bag(tfidf.vocabulary, a), Bag(tfidf.vocabulary, b))

-----------------------------------------------------------------------------
(* The engine: the fields __init__ sets *)

Engine == [grants_df |-> grants_df, researcher_profiles |-> researcher_profiles,
           title_tfidf |-> title_tfidf, title_to_idx |-> title_to_idx,
           logistic_model |-> logistic_model]

-----------------------------------------------------------------------------
(* _get_top_predicted_themes *)

None == <<>>
Some(x) == <<x>>

QuantumT == <<"Quantum">>
EducationT == <<"Education">>
PhysicsT == <<"Physics">>

Classifiers == {"A"}

\* The classifiers a logistic_model.pkl can hold: A, the one the engines above
\* load; B, which gives every text the first label A gives it and another
\* second label; C, which differs from A in the first label of some texts.
ClassifierPool == {"A", "B", "C"}

\* predict_proba and argsort: the labels of the classifier, most probable first.
PredictRanking(model, text) ==
    LET quantum == "quantum" \in Range(Lower(text))
        stop == "the" \in Range(Lower(text))
    IN  CASE model = "A" /\ quantum -> <<QuantumT, EducationT, PhysicsT>>
          [] model = "A" /\ ~quantum /\ stop -> <<EducationT, QuantumT, PhysicsT>>
          [] model = "B" /\ quantum -> <<QuantumT, PhysicsT, EducationT>>
          [] model = "B" /\ ~quantum /\ stop -> <<EducationT, PhysicsT, QuantumT>>
          [] model = "B" -> <<PhysicsT, QuantumT, EducationT>>
          [] model = "C" /\ (quantum \/ stop) -> <<EducationT, QuantumT, PhysicsT>>
          [] OTHER -> <<PhysicsT, EducationT, QuantumT>>

Min(a, b) == IF a <= b THEN a ELSE b

\* np.argsort(probabilities)[::-1][:k] (_get_top_predicted_themes, below), and
\* a variant without the reversal: the k least probable labels.
_get_top_predicted_themes_ascending(E, text, k) ==
    LET ranking == PredictRanking(E.logistic_model, text)
    IN  [i \in 1..Min(k, Len(ranking)) |-> ranking[Len(ranking) + 1 - i]]

_get_top_predicted_themes(E, text, k) ==
    LET ranking == PredictRanking(E.logistic_model, text)
    IN  SubSeq(ranking, 1, Min(k, Len(ranking)))

-----------------------------------------------------------------------------
(* _is_exact_match *)

Threshold == Rat(85, 100)
CloseMatch == Rat(7, 10)
ExactMultiplier == 200
CloseMultiplier == 150
BaseMultiplier == 100

\* input_title.lower().strip('"').strip("'")
Clean(title) == Strip(Strip(Lower(title), {DQ}), {SQ})

\* Lines 149-150 and 154: if similarity >= threshold: return True, similarity;
\* return False, 0.0
AboveThreshold(similarity, threshold) ==
    IF RLe(threshold, similarity) THEN <<TRUE, similarity>> ELSE <<FALSE, RZero>>

\* _is_exact_match (below) and a variant of it without the string comparison.
_is_exact_match_cosine_only(E, input_title, existing_title, threshold) ==
    AboveThreshold(cosine_similarity(E.title_tfidf, input_title, existing_title), threshold)

_is_exact_match(E, input_title, existing_title, threshold) ==
    IF Clean(input_title) = Clean(existing_title) THEN <<TRUE, ROne>>
    ELSE AboveThreshold(cosine_similarity(E.title_tfidf, input_title, existing_title),
                        threshold)

-----------------------------------------------------------------------------
(* _calculate_researcher_score *)

ZeroBreakdown ==
    [theme_matches |-> 0, theme_score |-> RZero, keyword_score |-> RZero,
     contribution_score |-> RZero, recency_score |-> RZero, total_score |-> RZero]

\* The titles of the profile the loop looks at: those in title_to_idx.
IndexedTitles(E, titles) == SelectSeq(titles, LAMBDA t : t \in DOMAIN E.title_to_idx)

\* The multiplier tiers of lines 208-217 (KeywordTier), and two variants of them:
\* the close tier from 0.7 on, and a close tier that pays more than a match.
KeywordTierAtLeast(exact_match_found, max_similarity) ==
    IF exact_match_found THEN RMul(max_similarity, RInt(ExactMultiplier))
    ELSE IF RLe(CloseMatch, max_similarity) THEN RMul(max_similarity, RInt(CloseMultiplier))
    ELSE RMul(max_similarity, RInt(BaseMultiplier))

KeywordTierCloseBoost(exact_match_found, max_similarity) ==
    IF exact_match_found THEN RMul(max_similarity, RInt(ExactMultiplier))
    ELSE IF RLt(CloseMatch, max_similarity) THEN RMul(max_similarity, RInt(250))
    ELSE RMul(max_similarity, RInt(BaseMultiplier))

KeywordTier(exact_match_found, max_similarity) ==
    IF exact_match_found THEN RMul(max_similarity, RInt(ExactMultiplier))
    ELSE IF RLt(CloseMatch, max_similarity) THEN RMul(max_similarity, RInt(CloseMultiplier))
    ELSE RMul(max_similarity, RInt(BaseMultiplier))

\* Lines 189-194: the cosine of the input against the indexed row of each title.
Similarities(E, titles, target_keywords) ==
    [i \in 1..Len(titles) |->
        cosine_similarity(E.title_tfidf, target_keywords,
                          AllTitles(E.grants_df)[E.title_to_idx[titles[i]]])]

\* Line 197: _is_exact_match of the input against each title.
Matches(E, titles, target_keywords) ==
    [i \in 1..Len(titles) |-> _is_exact_match(E, target_keywords, titles[i], Threshold)]

\* Lines 198-200: the score of each title that matched.
MatchScores(matches) ==
    [i \in 1..Len(matches) |-> IF matches[i][1] THEN matches[i][2] ELSE RZero]

\* Lines 182-217: max_similarity starts at 0 and takes every match score and
\* the best similarity; exact_match_found is set by any match.
KeywordOver(matches, similarities) ==
    KeywordTier(\E i \in 1..Len(matches) : matches[i][1],
                RMax(RMaxSeq(MatchScores(matches)), RMaxSeq(similarities)))

KeywordScore(E, profile, target_keywords) ==
    IF target_keywords # <<>> /\ profile.titles # <<>>
    THEN KeywordOver(Matches(E, IndexedTitles(E, profile.titles), target_keywords),
                     Similarities(E, IndexedTitles(E, profile.titles), target_keywords))
    ELSE RZero

ThemeProjects(profile, target_theme) ==
    SelectSeq(profile.projects, LAMBDA p : p.theme = target_theme)

ContributionScore(profile, target_theme) ==
    LET theme_projects == ThemeProjects(profile, target_theme)
    IN  IF theme_projects # <<>>
        THEN LET avg_contribution ==
                     RDivInt(RSum([i \in 1..Len(theme_projects) |->
                                      theme_projects[i].contribution]),
                             Len(theme_projects))
             IN  RMul(RDivInt(avg_contribution, 100), RInt(ContributionScale))
        ELSE RZero

RecencyScore(profile) ==
    LET recent_projects ==
            SelectSeq(profile.projects, LAMBDA p : p.year >= current_year - RecencyWindow)
    IN  RInt(Len(recent_projects) * RecencyWeight)

\* Line 238 (TotalScore), and a variant that leaves the recency bonus out.
TotalScoreNoRecency(theme_score, keyword_score, contribution_score, recency_score) ==
    RAdd(RAdd(theme_score, keyword_score), contribution_score)

TotalScore(theme_score, keyword_score, contribution_score, recency_score) ==
    RAdd(RAdd(RAdd(theme_score, keyword_score), contribution_score), recency_score)

\* Line 241: return total_score, score_breakdown
ScoreAndBreakdown(theme_matches, theme_score, keyword_score, contribution_score, recency_score, total_score) ==
    <<total_score,
      [theme_matches |-> theme_matches, theme_score |-> theme_score,
       keyword_score |-> keyword_score, contribution_score |-> contribution_score,
       recency_score |-> recency_score, total_score |-> total_score]>>

\* Lines 238-239: the total of the four parts.
Totalled(theme_matches, theme_score, keyword_score, contribution_score, recency_score) ==
    ScoreAndBreakdown(theme_matches, theme_score, keyword_score, contribution_score,
                      recency_score,
                      TotalScore(theme_score, keyword_score, contribution_score,
                                 recency_score))

\* Lines 175-176: theme_matches = theme_counts.get(target_theme, 0), times 10.
ThemeScored(theme_matches, keyword_score, contribution_score, recency_score) ==
    Totalled(theme_matches, RInt(theme_matches * ThemeWeight), keyword_score,
             contribution_score, recency_score)

\* Lines 172-241: the score of a researcher who has a profile.
ScoreProfile(E, profile, target_theme, target_keywords) ==
    ThemeScored(DictGet(profile.theme_counts, target_theme, 0),
                KeywordScore(E, profile, target_keywords),
                ContributionScore(profile, target_theme),
                RecencyScore(profile))

\* Returns <<total_score, breakdown>>.
_calculate_researcher_score(E, researcher, target_theme, target_keywords) ==
    IF researcher \notin DOMAIN E.researcher_profiles.prof
    THEN <<RZero, ZeroBreakdown>>
    ELSE ScoreProfile(E, E.researcher_profiles.prof[researcher], target_theme,
                      target_keywords)

-----------------------------------------------------------------------------
(* recommend *)

UnknownT == <<"Unknown">>

\* Theme resolution, lines 256-258 (ResolveTheme): the theme used, and what the
\* classifier returned when it was called; and a variant that always predicts.
ResolveThemeAlwaysPredict(E, project_title, target_theme) ==
    LET predicted == _get_top_predicted_themes(E, project_title, TopK)
    IN  [theme |-> IF predicted # <<>> THEN predicted[1] ELSE UnknownT,
         predicted_themes |-> Some(predicted)]

ResolveTheme(E, project_title, target_theme) ==
    IF target_theme = None
    THEN LET predicted == _get_top_predicted_themes(E, project_title, TopK)
         IN  [theme |-> IF predicted # <<>> THEN predicted[1] ELSE UnknownT,
              predicted_themes |-> Some(predicted)]
    ELSE [theme |-> target_theme[1], predicted_themes |-> None]

\* The loop of lines 262-263: every key of researcher_profiles, in insertion order.
Scored(researcher, sb) == [researcher |-> researcher, score |-> sb[1], breakdown |-> sb[2]]

ScoreAll(E, target_theme, project_title) ==
    [i \in 1..Len(E.researcher_profiles.keys) |->
        Scored(E.researcher_profiles.keys[i],
               _calculate_researcher_score(E, E.researcher_profiles.keys[i], target_theme,
                                           project_title))]

\* Line 264: the filter (Keep), and a variant that drops nothing.
KeepAll(score) == TRUE

Keep(score) == RLt(RZero, score)

Candidate(E, s) ==
    [researcher |-> s.researcher, score |-> s.score, breakdown |-> s.breakdown,
     projects |-> Len(E.researcher_profiles.prof[s.researcher].projects),
     theme_projects |-> s.breakdown.theme_matches]

\* list.sort(key=score, reverse=True): stable, equal scores keep their order
\* (InsertDesc), and a variant that puts a later equal score first.
RECURSIVE InsertDescUnstable(_, _)
InsertDescUnstable(sorted, x) ==
    IF sorted = <<>> THEN <<x>>
    ELSE IF RLe(Head(sorted).score, x.score) THEN <<x>> \o sorted
    ELSE <<Head(sorted)>> \o InsertDescUnstable(Tail(sorted), x)

RECURSIVE InsertDesc(_, _)
InsertDesc(sorted, x) ==
    IF sorted = <<>> THEN <<x>>
    ELSE IF RLt(Head(sorted).score, x.score) THEN <<x>> \o sorted
    ELSE <<Head(sorted)>> \o InsertDesc(Tail(sorted), x)

RECURSIVE SortDesc(_, _)
SortDesc(done, todo) ==
    IF todo = <<>> THEN done ELSE SortDesc(InsertDesc(done, Head(todo)), Tail(todo))

\* recommendations[:top_n] for top_n >= 0 (Slice), and a variant that cuts
\* nothing.
SliceAll(s, top_n) == s

Slice(s, top_n) == SubSeq(s, 1, Min(top_n, Len(s)))

\* Lines 264-271: the entry appended for each score the filter keeps.
Candidates(E, kept) == [i \in 1..Len(kept) |-> Candidate(E, kept[i])]

\* Lines 274 and 277-282: the sort and the returned dictionary.
Sorted(project_title, resolved, scored, recommendations, top_n) ==
    [ret |-> [project_title |-> project_title,
              predicted_theme |-> resolved.theme,
              recommendations |-> Slice(recommendations, top_n),
              total_researchers_scored |-> Len(recommendations)],
     predicted_themes |-> resolved.predicted_themes,
     scores |-> scored]

\* Lines 260-274: the loop over the researchers, the filter and the sort.
Ranked(E, project_title, resolved, scored, top_n) ==
    Sorted(project_title, resolved, scored,
           SortDesc(<<>>, Candidates(E, SelectSeq(scored, LAMBDA s : Keep(s.score)))),
           top_n)

\* Lines 260-282, the theme resolved.
Resolved(E, project_title, resolved, top_n) ==
    Ranked(E, project_title, resolved, ScoreAll(E, resolved.theme, project_title), top_n)

\* The body of recommend: what it returns (ret) and its locals.
recommend_run(E, project_title, target_theme, top_n) ==
    Resolved(E, project_title, ResolveTheme(E, project_title, target_theme), top_n)

recommend(E, project_title, target_theme, top_n) ==
    recommend_run(E, project_title, target_theme, top_n).ret

-----------------------------------------------------------------------------
(* The corpus files and the requests the model draws from *)

Field(t) == <<DQ>> \o t \o <<DQ>>

FileRow(code, time, theme, title, authors) ==
    [Code |-> Field(<<code>>), Time |-> time, Theme |-> Field(theme),
     Title |-> title, Authors |-> Field(authors)]

RowPool ==
    { FileRow("P1", current_year - 2, QuantumT, <<"Quantum", "Error">>,
              <<"Alice", COMMA, "Bob">>),
      FileRow("P2", current_year - 4, EducationT, <<"Quantum", "Survey">>,
              <<"Carol">>),
      FileRow("P3", current_year - 3, QuantumT, <<"The">>,
              <<"Bob", COMMA, BLANK, "Bob", COMMA, "Carol">>),
      FileRow("P4", current_year - 4, EducationT, <<SQ, SQ>>,
              <<"Carol", COMMA, "Alice">>) }

PoolRow(code) == CHOOSE r \in RowPool : r.Code = Field(<<code>>)

RECURSIVE SeqsUpTo(_, _)
SeqsUpTo(S, n) ==
    IF n = 0 THEN {<<>>}
    ELSE LET shorter == SeqsUpTo(S, n - 1)
         IN  shorter \cup {Append(s, x) : s \in {t \in shorter : Len(t) = n - 1}, x \in S}

Corpora == SeqsUpTo(RowPool, MaxRecords) \ {<<>>}

ProjectTitles ==
    { <<"Quantum", "Error">>, <<SQ, "quantum", "error", SQ>>, <<"Quantum">>, <<"The">>, <<>> }

TargetThemes == {None, Some(QuantumT), Some(EducationT), Some(PhysicsT)}

TopNs == 0..MaxTopN

\* The values the fitted weights can give the norm ratio of a vector and a
\* proper part of it.
SimGrid == {Rat(7, 10), Rat(4, 5), Rat(85, 100)}

\* The pairs <<part, vector>> whose norm ratio a call can ask for: the common
\* words of a project title and a corpus title, against either of the two.
PartialPairs(vocabulary, all_titles) ==
    LET pairs == { <<Bag(vocabulary, a), Bag(vocabulary, all_titles[i])>> :
                     a \in ProjectTitles, i \in 1..Len(all_titles) }
        both  == pairs \cup { <<pr[2], pr[1]>> : pr \in pairs }
    IN  { <<Restrict(pr[1], pr[2]), pr[1]>> :
            pr \in { q \in both : Partial(q[1], q[2]) /\ Restrict(q[1], q[2]) # q[1] } }

\* fit_transform: the fitted vectorizers a corpus of titles can give, the
\* weight-dependent cosines drawn from grid.
FittedVectorizers(all_titles, grid) ==
    LET vocabulary == Vocabulary(all_titles)
    IN  { [vocabulary |-> vocabulary, weights |-> w] :
            w \in [PartialPairs(vocabulary, all_titles) -> grid] }

\* fit_transform raises ValueError on a missing title (np.nan is an invalid
\* document) and on a corpus without a word (empty vocabulary).
CanFit(all_titles) ==
    /\ \A i \in 1..Len(all_titles) : all_titles[i] # NaN
    /\ CorpusTokens(all_titles) # {}

-----------------------------------------------------------------------------
(* State machine *)

\* __init__: the engine over a corpus file.
Constructed(file, model, tfidf) ==
    LET df == _load_grants_data(file)
    IN  /\ CanFit(AllTitles(df))
        /\ grants_df = df
        /\ researcher_profiles = _build_researcher_profiles(df)
        /\ title_tfidf = tfidf
        /\ title_to_idx = TitleToIdx(AllTitles(df))
        /\ logistic_model = model

\* The state after construction over one of the corpora with one of the
\* classifiers, no call made yet.
InitWith(corpora, grid, models) ==
    /\ grants_file \in corpora
    /\ \E model \in models :
         \E tfidf \in FittedVectorizers(AllTitles(_load_grants_data(grants_file)), grid) :
            Constructed(grants_file, model, tfidf)
    /\ request = None
    /\ predicted_themes = None
    /\ scores = <<>>
    /\ result = None
    /\ files = [grants |-> TRUE, models |-> TRUE]
    /\ raised = None
    /\ response = None

InitOver(corpora, grid) == InitWith(corpora, grid, Classifiers)

Init == InitOver(Corpora, SimGrid)

\* No engine object: the value of the engine's fields before construction and
\* after a construction that raised.
Unloaded == "unloaded"

EngineExists == logistic_model \in ClassifierPool

\* A caller invokes engine.recommend(project_title, target_theme, top_n).
Call ==
    /\ EngineExists
    /\ request = None
    /\ \E project_title \in ProjectTitles, target_theme \in TargetThemes, top_n \in TopNs :
        /\ request' = Some([project_title |-> project_title, target_theme |-> target_theme,
                            top_n |-> top_n])
        /\ predicted_themes' = None
        /\ scores' = <<>>
        /\ result' = None
        /\ UNCHANGED <<grants_file, grants_df, researcher_profiles, title_tfidf,
                       title_to_idx, logistic_model, files, raised, response>>

\* What a run of the body leaves: its locals and the returned dictionary.
Returns(run) ==
    /\ predicted_themes' = run.predicted_themes
    /\ scores' = run.scores
    /\ result' = Some(run.ret)

HoldsEngine(e) ==
    /\ grants_df' = e.grants_df
    /\ researcher_profiles' = e.researcher_profiles
    /\ title_tfidf' = e.title_tfidf
    /\ title_to_idx' = e.title_to_idx
    /\ logistic_model' = e.logistic_model

\* The engine a run of recommend leaves: lines 243-282 and the methods they
\* call read the fields of self and assign none (the profile of a researcher
\* is read with dict.get, never created), so it is the engine the run was
\* given (self_after_recommend); and a variant whose run reorders the profiles.
self_reordered(E, project_title, target_theme, top_n) ==
    [E EXCEPT !.researcher_profiles.keys = [i \in 1..Len(@) |-> @[Len(@) + 1 - i]]]

self_after_recommend(E, project_title, target_theme, top_n) == E

\* The body of recommend runs on the pending call and returns.
Recommend ==
    /\ request # None
    /\ result = None
    /\ Returns(recommend_run(Engine, request[1].project_title, request[1].target_theme,
                              request[1].top_n))
    /\ HoldsEngine(self_after_recommend(Engine, request[1].project_title,
                                        request[1].target_theme, request[1].top_n))
    /\ UNCHANGED <<grants_file, request, files, raised, response>>

\* The caller takes the returned dictionary: the call is over, and the engine,
\* whose data a call never changes, is ready for the next one.
Return ==
    /\ result # None
    /\ request' = None
    /\ predicted_themes' = None
    /\ scores' = <<>>
    /\ result' = None
    /\ UNCHANGED <<grants_file, grants_df, researcher_profiles, title_tfidf,
                   title_to_idx, logistic_model, files, raised, response>>

Next == Call \/ Recommend \/ Return

Spec == Init /\ [][Next]_vars

-----------------------------------------------------------------------------
(* The engine built from the files on disk *)

FileNotFoundError == "FileNotFoundError"
ValueError == "ValueError"

\* __init__, lines 30-44: the exception it raises, None when it returns.
\* _load_models raises without the artifacts, read_csv without the grants file,
\* fit_transform on a title list it cannot fit (ConstructionError); and a
\* variant that never raises.
ConstructionNeverFails(fs, file) == None

ConstructionError(fs, file) ==
    IF ~fs.models THEN Some(FileNotFoundError)
    ELSE IF ~fs.grants THEN Some(FileNotFoundError)
    ELSE IF ~CanFit(AllTitles(_load_grants_data(file))) THEN Some(ValueError)
    ELSE None

\* The fields __init__ sets over a loaded table.
EngineOver(df, model, tfidf) ==
    [grants_df |-> df, researcher_profiles |-> _build_researcher_profiles(df),
     title_tfidf |-> tfidf, title_to_idx |-> TitleToIdx(AllTitles(df)),
     logistic_model |-> model]

\* The engines __init__ can return over a grants file.
Engines(file, grid) ==
    { EngineOver(_load_grants_data(file), model, tfidf) :
        model \in Classifiers,
        tfidf \in FittedVectorizers(AllTitles(_load_grants_data(file)), grid) }

NoEngine ==
    [grants_df |-> <<>>, researcher_profiles |-> EmptyProfiles,
     title_tfidf |-> [vocabulary |-> {}, weights |-> EmptyDict],
     title_to_idx |-> EmptyDict, logistic_model |-> Unloaded]

\* engine = ResearcherRecommendationEngine(): it returns an engine or raises.
Construct ==
    /\ ~EngineExists
    /\ raised = None
    /\ IF ConstructionError(files, grants_file) # None
       THEN /\ raised' = ConstructionError(files, grants_file)
            /\ HoldsEngine(NoEngine)
       ELSE /\ raised' = None
            /\ \E e \in Engines(grants_file, SimGrid) : HoldsEngine(e)
    /\ UNCHANGED <<grants_file, request, predicted_themes, scores, result, files, response>>

\* Rows of a grants file, some with a field left without text.
BuildPool ==
    { FileRow("P1", current_year - 2, QuantumT, <<"Quantum", "Error">>,
              <<"Alice", COMMA, "Bob">>),
      [Code |-> Field(<<"P5">>), Time |-> current_year - 1, Theme |-> Field(QuantumT),
       Title |-> <<>>, Authors |-> Field(<<"Carol">>)],
      [Code |-> Field(<<"P6">>), Time |-> current_year - 1, Theme |-> <<>>,
       Title |-> <<"Quantum", "Survey">>, Authors |-> Field(<<"Carol">>)],
      [Code |-> Field(<<"P7">>), Time |-> current_year - 1, Theme |-> Field(QuantumT),
       Title |-> <<"Survey">>, Authors |-> <<>>] }

\* The grants files on disk: the header alone, or up to MaxRecords rows.
BuildCorpora == SeqsUpTo(BuildPool, MaxRecords)

\* The process starts: the files on disk, no engine yet.
InitBuild ==
    /\ files \in [grants : BOOLEAN, models : BOOLEAN]
    /\ grants_file \in (IF files.grants THEN BuildCorpora ELSE {<<>>})
    /\ grants_df = NoEngine.grants_df
    /\ researcher_profiles = NoEngine.researcher_profiles
    /\ title_tfidf = NoEngine.title_tfidf
    /\ title_to_idx = NoEngine.title_to_idx
    /\ logistic_model = NoEngine.logistic_model
    /\ request = None
    /\ predicted_themes = None
    /\ scores = <<>>
    /\ result = None
    /\ raised = None
    /\ response = None

NextBuild == Construct \/ Call \/ Recommend \/ Return

SpecBuild == InitBuild /\ [][NextBuild]_vars

-----------------------------------------------------------------------------
(* get_recommendations *)

\* Lines 309-317: the titles of the grants of the engine's table, in its order,
\* that list the researcher and carry the theme the recommendation used
\* (RelatedRows); and a variant that takes the grants of every theme.
RelatedRowsAnyTheme(df, researcher, actual_theme) ==
    SelectSeq(df, LAMBDA grant : researcher \in Range(ParseResearchers(grant.Researchers)))

RelatedRows(df, researcher, actual_theme) ==
    SelectSeq(df, LAMBDA grant :
        /\ researcher \in Range(ParseResearchers(grant.Researchers))
        /\ Strip(Str(grant.Theme), {SQ}) = actual_theme)

PaperTitles(rows) == [i \in 1..Len(rows) |-> Strip(Str(rows[i].Title), {DQ})]

\* Lines 319-331: one formatted recommendation.
FormattedRec(E, rec, actual_theme) ==
    [researcher |-> rec.researcher,
     score |-> rec.score,
     theme_projects |-> rec.breakdown.theme_matches,
     total_projects |-> rec.projects,
     breakdown |-> [theme_score |-> rec.breakdown.theme_score,
                    keyword_score |-> rec.breakdown.keyword_score,
                    contribution_score |-> rec.breakdown.contribution_score,
                    recency_score |-> rec.breakdown.recency_score],
     related_papers |-> PaperTitles(RelatedRows(E.grants_df, rec.researcher, actual_theme))]

\* Lines 301-336: the result of recommend with its recommendations formatted.
Formatted(E, ret) ==
    [project_title |-> ret.project_title,
     predicted_theme |-> ret.predicted_theme,
     recommendations |-> [j \in 1..Len(ret.recommendations) |->
                             FormattedRec(E, ret.recommendations[j], ret.predicted_theme)],
     total_researchers_scored |-> ret.total_researchers_scored]

\* get_recommendations over the engine E its first line built.
get_recommendations(E, project_title, target_theme, top_n) ==
    Formatted(E, recommend(E, project_title, target_theme, top_n))

-----------------------------------------------------------------------------
(* server.py: the POST handlers of one server process. socketserver.TCPServer *)
(* handles one request at a time, so a handler runs from its first line to    *)
(* its answer before the next one starts. `response` is the last exchange:    *)
(* the path asked, the fields of the form and the answer. The engine of       *)
(* get_recommendations is a local of the call; the engine variables show the  *)
(* one the last handler built, and no engine when it built none.              *)

MaxFileRows == 3

AddPath == "/add_project"
RecommendPath == "/recommend_researchers"

Exchange(path, form, status, body) == Some([path |-> path, form |-> form, status |-> status, body |-> body])

\* str.strip() of a form value.
FormStrip(v) == Strip(v, {BLANK})

\* Line 68: the row add_project writes.
NewRow(code, time, theme, title, authors) ==
    [Code |-> <<DQ>> \o code \o <<DQ>>, Time |-> time, Theme |-> <<DQ>> \o theme \o <<DQ>>,
     Title |-> <<SQ>> \o title \o <<SQ>>, Authors |-> <<DQ>> \o authors \o <<DQ>>]

\* A line feed inside a form value: parse_qs decodes %0A and strip() takes it
\* off the ends only.
NL == "\n"

\* Lines 81-82: f.write(new_row), as the lines read_csv will read. The title is
\* written between single quotes, which are no quoting to read_csv (its
\* quotechar is the double quote): a line feed in the title ends the line, the
\* line so far is a row without researchers, and what follows is a row of its
\* own, whose first field is the rest of the title and whose second field, on
\* the last of them, is the authors.
WrittenLines(row) ==
    LET parts == Split(row.Title, NL)
    IN  [i \in 1..Len(parts) |->
            IF i = 1
            THEN [row EXCEPT !.Title = parts[1], !.Authors = IF Len(parts) = 1 THEN @ ELSE <<>>]
            ELSE [Code |-> parts[i], Time |-> IF i = Len(parts) THEN row.Authors ELSE <<>>,
                  Theme |-> <<>>, Title |-> <<>>, Authors |-> <<>>]]

\* The locals of a handler that built no engine and called no recommend.
NoCall ==
    /\ HoldsEngine(NoEngine)
    /\ request' = None
    /\ predicted_themes' = None
    /\ scores' = <<>>
    /\ result' = None

\* Lines 50-90 of do_POST, the fields stripped.
AddProjectOver(form, code, theme, title, authors) ==
    /\ NoCall
    /\ raised' = None
    /\ IF code = <<>> \/ theme = <<>> \/ title = <<>> \/ authors = <<>>
       THEN /\ response' = Exchange(AddPath, form, 400, "Missing required fields")
            /\ UNCHANGED grants_file
       ELSE IF ~files.grants
       THEN /\ response' = Exchange(AddPath, form, 500, "grants_final.tsv not found")
            /\ UNCHANGED grants_file
       ELSE /\ grants_file' = grants_file \o WrittenLines(NewRow(code, form.time, theme, title, authors))
            /\ response' = Exchange(AddPath, form, 200, "Project added successfully")
    /\ UNCHANGED files

\* The forms posted to /add_project: one with a blank theme and one with a
\* title of two lines among them. The time is a year in all of them: the
\* blank-field answer is reached through the theme.
AddForms ==
    [code : {<<"P8">>}, time : {current_year}, theme : {QuantumT, <<BLANK>>},
     title : {<<"Quantum", "Error">>, <<"The">>, <<"Quantum", NL, "Error">>},
     authors : {<<"Alice", COMMA, "Dana">>}]

\* POST /add_project (do_POST, lines 42-97).
AddProject ==
    /\ Len(grants_file) < MaxFileRows
    /\ \E form \in AddForms :
         AddProjectOver(form, FormStrip(form.code), FormStrip(form.theme), FormStrip(form.title), FormStrip(form.authors))

\* Lines 127-135: get_recommendations returned.
Served(form, e, run) ==
    /\ HoldsEngine(e)
    /\ Returns(run)
    /\ raised' = None
    /\ response' = Exchange(RecommendPath, form, 200, Formatted(e, run.ret))

\* Line 127: get_recommendations builds its engine from the files as they are
\* and calls recommend; lines 137-144 answer what it raises.
GetRecommendations(form, project_title, target_theme, grid) ==
    IF ConstructionError(files, grants_file) # None
    THEN /\ NoCall
         /\ raised' = ConstructionError(files, grants_file)
         /\ response' = Exchange(RecommendPath, form, 500, ConstructionError(files, grants_file)[1])
    ELSE /\ request' = Some([project_title |-> project_title, target_theme |-> target_theme, top_n |-> form.top_n])
         /\ \E e \in Engines(grants_file, grid) :
              Served(form, e, recommend_run(e, project_title, target_theme, form.top_n))

\* Lines 100-135 of do_POST, the fields stripped.
RecommendResearchersOver(form, project_title, target_theme, grid) ==
    IF ~files.module
    THEN /\ NoCall
         /\ raised' = None
         /\ response' = Exchange(RecommendPath, form, 503, "Recommendation engine not available")
    ELSE IF project_title = <<>>
    THEN /\ NoCall
         /\ raised' = None
         /\ response' = Exchange(RecommendPath, form, 400, "project_title is required")
    ELSE GetRecommendations(form, project_title, target_theme, grid)

\* `value.strip() or None` of line 114.
OrNone(v) == IF v = <<>> THEN None ELSE Some(v)

\* The forms posted to /recommend_researchers: a blank title and an absent
\* theme among them.
RecommendForms ==
    [project_title : {<<"Quantum", "Error">>, <<"The">>, <<BLANK>>},
     target_theme : {<<>>, QuantumT}, top_n : {1, MaxTopN}]

\* The fit is a function of the corpus: one value of the grid.
ServerGrid == {Rat(4, 5)}

\* POST /recommend_researchers (do_POST, lines 99-144).
RecommendResearchers ==
    /\ \E form \in RecommendForms :
         RecommendResearchersOver(form, FormStrip(form.project_title), OrNone(FormStrip(form.target_theme)), ServerGrid)
    /\ UNCHANGED <<grants_file, files>>

\* The files the server starts with: the header alone, one row, and two rows
\* of different themes that share a researcher.
ServerCorpora == { <<>>, <<PoolRow("P1")>>, <<PoolRow("P1"), PoolRow("P4")>> }

InitServer ==
    /\ files \in [grants : BOOLEAN, models : BOOLEAN, module : BOOLEAN]
    /\ grants_file \in (IF files.grants THEN ServerCorpora ELSE {<<>>})
    /\ grants_df = NoEngine.grants_df
    /\ researcher_profiles = NoEngine.researcher_profiles
    /\ title_tfidf = NoEngine.title_tfidf
    /\ title_to_idx = NoEngine.title_to_idx
    /\ logistic_model = NoEngine.logistic_model
    /\ request = None
    /\ predicted_themes = None
    /\ scores = <<>>
    /\ result = None
    /\ raised = None
    /\ response = None

NextServer == AddProject \/ RecommendResearchers

SpecServer == InitServer /\ [][NextServer]_vars

(* The ranking of a researcher with a near-duplicate title against one with *)
(* two records in the theme: corpora of three records.                      *)

RankRecords == 3

RankPool ==
    { FileRow("P1", current_year - 4, EducationT, <<"Quantum", "Error">>, <<"Alice">>),
      FileRow("P2", current_year - 1, QuantumT, <<"Quantum", "Survey">>, <<"Carol">>),
      FileRow("P3", current_year - 1, QuantumT, <<"The">>, <<"Carol">>) }

RankCorpora ==
    {c \in SeqsUpTo(RankPool, RankRecords) : Len(c) = RankRecords /\ Range(c) = RankPool}

RankGrid == {Rat(4, 5), Rat(84, 100), Rat(85, 100)}

InitRank == InitOver(RankCorpora, RankGrid)

SpecRank == InitRank /\ [][Next]_vars

-----------------------------------------------------------------------------
(* A call during which the similarity computation of one researcher raises. *)
(* The places that can raise are the transform of line 186 and the cosine   *)
(* of line 193, which no try encloses, and the transform and cosine of      *)
(* lines 145-147, inside the try of _is_exact_match whose bare except       *)
(* passes on to `return False, 0.0`.                                        *)

TransformSite == "transform"
CosineSite == "cosine_similarity"
NearDuplicateSite == "_is_exact_match"

\* Whether the scoring of the profile gets to the place.
Reaches(E, profile, target_keywords, site) ==
    /\ target_keywords # <<>>
    /\ profile.titles # <<>>
    /\ site = CosineSite => IndexedTitles(E, profile.titles) # <<>>
    /\ site = NearDuplicateSite =>
          \E i \in 1..Len(IndexedTitles(E, profile.titles)) :
              Clean(target_keywords) # Clean(IndexedTitles(E, profile.titles)[i])

\* The faults a call with this title can meet: a researcher and a place the
\* scoring of that researcher gets to.
Faults(E, project_title) ==
    { f \in [researcher : Range(E.researcher_profiles.keys), site : {TransformSite, CosineSite, NearDuplicateSite}] :
        Reaches(E, E.researcher_profiles.prof[f.researcher], project_title, f.site) }

\* Lines 140-154 when the try block raises: the string comparison, else
\* except: pass and return False, 0.0.
_is_exact_match_raising(E, input_title, existing_title, threshold) ==
    IF Clean(input_title) = Clean(existing_title) THEN <<TRUE, ROne>> ELSE <<FALSE, RZero>>

MatchesRaising(E, titles, target_keywords) ==
    [i \in 1..Len(titles) |-> _is_exact_match_raising(E, target_keywords, titles[i], Threshold)]

\* Lines 172-241 for the researcher whose near-duplicate check raises: the
\* similarities of line 193 are still there.
ScoreProfileRaising(E, profile, target_theme, target_keywords) ==
    ThemeScored(DictGet(profile.theme_counts, target_theme, 0),
                KeywordOver(MatchesRaising(E, IndexedTitles(E, profile.titles), target_keywords),
                            Similarities(E, IndexedTitles(E, profile.titles), target_keywords)),
                ContributionScore(profile, target_theme),
                RecencyScore(profile))

\* The loop of lines 262-263 when the fault is one the try catches.
ScoreAllRaising(E, target_theme, project_title, fault) ==
    [i \in 1..Len(E.researcher_profiles.keys) |->
        Scored(E.researcher_profiles.keys[i],
               IF E.researcher_profiles.keys[i] = fault.researcher
               THEN ScoreProfileRaising(E, E.researcher_profiles.prof[fault.researcher], target_theme, project_title)
               ELSE _calculate_researcher_score(E, E.researcher_profiles.keys[i], target_theme, project_title))]

\* recommend when the fault is one the try catches.
RankedRaising(E, project_title, resolved, top_n, fault) ==
    Ranked(E, project_title, resolved, ScoreAllRaising(E, resolved.theme, project_title, fault), top_n)

Exception == "Exception"

\* A call of recommend and the fault it will meet.
CallUnderFault ==
    /\ EngineExists
    /\ request = None
    /\ raised = None
    /\ \E project_title \in ProjectTitles, target_theme \in TargetThemes, top_n \in TopNs :
         \E fault \in Faults(Engine, project_title) :
            request' = Some([project_title |-> project_title, target_theme |-> target_theme,
                             top_n |-> top_n, fault |-> fault])
    /\ predicted_themes' = None
    /\ scores' = <<>>
    /\ result' = None
    /\ UNCHANGED <<grants_file, grants_df, researcher_profiles, title_tfidf,
                   title_to_idx, logistic_model, files, raised, response>>

\* The body of recommend runs and meets the fault: an exception of line 186
\* or 193 leaves _calculate_researcher_score and recommend; one of lines
\* 145-147 is swallowed.
RecommendUnderFault ==
    /\ request # None
    /\ result = None
    /\ raised = None
    /\ IF request[1].fault.site = NearDuplicateSite
       THEN /\ Returns(RankedRaising(Engine, request[1].project_title,
                                     ResolveTheme(Engine, request[1].project_title, request[1].target_theme),
                                     request[1].top_n, request[1].fault))
            /\ UNCHANGED raised
       ELSE /\ raised' = Some(Exception)
            /\ UNCHANGED <<predicted_themes, scores, result>>
    /\ UNCHANGED <<grants_file, grants_df, researcher_profiles, title_tfidf,
                   title_to_idx, logistic_model, request, files, response>>

FaultCorpora == { <<PoolRow("P1"), PoolRow("P2")>>, <<PoolRow("P1"), PoolRow("P3")>> }

FaultGrid == {Rat(85, 100)}

InitFault == InitOver(FaultCorpora, FaultGrid)

NextFault == CallUnderFault \/ RecommendUnderFault \/ Return

SpecFault == InitFault /\ [][NextFault]_vars

\* The calls of an engine that loaded any of the classifiers of the pool.
SpecTheme == InitWith(FaultCorpora, FaultGrid, ClassifierPool) /\ [][Next]_vars

-----------------------------------------------------------------------------
(* What the properties speak of, read from the corpus table and the call *)

Returned == result # None
Req == request[1]
Res == result[1]

\* The records whose researcher list contains R.
RecordsOf(R) ==
    {i \in 1..Len(grants_df) : R \in Range(ParseResearchers(grants_df[i].Researchers))}

\* The titles of R's history.
HistoryTitles(R) == {grants_df[i].Title : i \in RecordsOf(R)}

\* Case and wrapping quotes put aside.
Normalized(t) == Strip(Strip(Lower(t), {DQ}), {SQ})

SameTitle(a, b) == Normalized(a) = Normalized(b)

Sim(a, b) == cosine_similarity(title_tfidf, a, b)

\* Glossary: the same work by exact string match or by cosine similarity >= 0.85.
NearDuplicate(a, b) == SameTitle(a, b) \/ RLe(Rat(85, 100), Sim(a, b))

HasNearDuplicate(R, title) == \E t \in HistoryTitles(R) : NearDuplicate(title, t)

MatchScore(a, b) == IF SameTitle(a, b) THEN ROne ELSE Sim(a, b)

IsMaxOf(m, S) == m \in S /\ \A x \in S : RLe(x, m)

\* m: the best similarity or match score over R's history.
BestM(R, title) ==
    LET S == {MatchScore(title, t) : t \in HistoryTitles(R)}
    IN  CHOOSE m \in S : IsMaxOf(m, S)

Times(m, k) == Rat(m[1] * k, m[2])

ScoredIdx == 1..Len(scores)

-----------------------------------------------------------------------------
(* C1: for every researcher scored, the breakdown's total_score is the sum  *)
(* of theme_score, keyword_score, contribution_score and recency_score,     *)
(* the returned score is that total, and so is the score of every entry of  *)
(* the recommendations.                                                     *)

SumOfParts(b) ==
    RSum(<<b.theme_score, b.keyword_score, b.contribution_score, b.recency_score>>)

C1_TotalIsSum ==
    Returned =>
        /\ \A i \in ScoredIdx :
              /\ scores[i].breakdown.total_score = SumOfParts(scores[i].breakdown)
              /\ scores[i].score = scores[i].breakdown.total_score
        /\ \A j \in 1..Len(Res.recommendations) :
              /\ Res.recommendations[j].score = SumOfParts(Res.recommendations[j].breakdown)
              /\ Res.recommendations[j].breakdown.total_score = Res.recommendations[j].score

\* A returned entry with all four components non-zero.
C1_Witness ==
    /\ Returned
    /\ \E j \in 1..Len(Res.recommendations) :
          LET b == Res.recommendations[j].breakdown
          IN  /\ b.theme_score # RZero
              /\ b.keyword_score # RZero
              /\ b.contribution_score # RZero
              /\ b.recency_score # RZero

-----------------------------------------------------------------------------
(* C2: for a researcher with at least one historical title and a non-empty  *)
(* input title, keyword_score is m x 200 if one of the researcher's titles  *)
(* is a near-duplicate of the input, otherwise m x 150 if m > 0.7,          *)
(* otherwise m x 100; m = 0.7 without a near-duplicate takes 100, a cosine  *)
(* of exactly 0.85 is a near-duplicate and takes 200.                       *)

ExpectedKeyword(found, m) ==
    IF found THEN Times(m, 200)
    ELSE IF RLt(Rat(7, 10), m) THEN Times(m, 150)
    ELSE Times(m, 100)

C2_KeywordTiers ==
    (Returned /\ Req.project_title # <<>>) =>
        \A i \in ScoredIdx :
            LET R == scores[i].researcher
                ks == scores[i].breakdown.keyword_score
                found == HasNearDuplicate(R, Req.project_title)
                m == BestM(R, Req.project_title)
            IN  HistoryTitles(R) # {} =>
                  /\ ks = ExpectedKeyword(found, m)
                  /\ (~found /\ m = Rat(7, 10)) => ks = RInt(70)
                  /\ (\E t \in HistoryTitles(R) : Sim(Req.project_title, t) = Rat(85, 100))
                        => RLe(RInt(170), ks)

\* A call where one researcher sits on the 0.7 boundary and another on the 0.85 one.
C2_Witness ==
    /\ Returned
    /\ Req.project_title # <<>>
    /\ \E i \in ScoredIdx :
          /\ ~HasNearDuplicate(scores[i].researcher, Req.project_title)
          /\ BestM(scores[i].researcher, Req.project_title) = Rat(7, 10)
          /\ scores[i].breakdown.keyword_score = RInt(70)
    /\ \E i \in ScoredIdx :
          /\ BestM(scores[i].researcher, Req.project_title) = Rat(85, 100)
          /\ scores[i].breakdown.keyword_score = RInt(170)

-----------------------------------------------------------------------------
(* C3 as stated: if the input title equals, case and wrapping quotes aside, *)
(* a title of R's history, _is_exact_match returns (True, 1.0) for that     *)
(* title and R's keyword_score is exactly 200, whatever their cosine.       *)

C3_ExactGives200_AsStated ==
    Returned =>
        \A i \in ScoredIdx : \A t \in HistoryTitles(scores[i].researcher) :
            SameTitle(Req.project_title, t) =>
                /\ _is_exact_match(Engine, Req.project_title, t, Threshold) = <<TRUE, ROne>>
                /\ scores[i].breakdown.keyword_score = RInt(200)

(* C3 amended: the same for a non-empty input title. *)

C3_ExactGives200 ==
    (Returned /\ Req.project_title # <<>>) =>
        \A i \in ScoredIdx : \A t \in HistoryTitles(scores[i].researcher) :
            SameTitle(Req.project_title, t) =>
                /\ _is_exact_match(Engine, Req.project_title, t, Threshold) = <<TRUE, ROne>>
                /\ scores[i].breakdown.keyword_score = RInt(200)

\* An exact match, case and quotes aside, of two titles whose cosine is 0.
C3_Witness ==
    /\ Returned
    /\ Req.project_title # <<>>
    /\ \E i \in ScoredIdx : \E t \in HistoryTitles(scores[i].researcher) :
          /\ SameTitle(Req.project_title, t)
          /\ Sim(Req.project_title, t) = RZero
          /\ scores[i].breakdown.keyword_score = RInt(200)

-----------------------------------------------------------------------------
(* C5: within each tier keyword_score is non-decreasing in m; whenever a    *)
(* near-duplicate is found m is at least 0.85, so the near-duplicate tier's *)
(* keyword_score is at least 170, above every keyword_score of a researcher *)
(* for whom no near-duplicate was found.                                    *)

\* The detection runs on a non-empty input title only.
NearDuplicateFound(R) ==
    Req.project_title # <<>> /\ HasNearDuplicate(R, Req.project_title)

TierOf(found, m) == IF found THEN "near-duplicate" ELSE IF RLt(Rat(7, 10), m) THEN "close" ELSE "regular"

SimValues == SimGrid \cup {RZero, ROne}

\* Within a tier a larger m gives no smaller keyword_score.
TierMonotone ==
    \A found \in BOOLEAN : \A a \in SimValues : \A b \in SimValues :
        (TierOf(found, a) = TierOf(found, b) /\ RLe(a, b))
            => RLe(KeywordTier(found, a), KeywordTier(found, b))

C5_TierSeparation ==
    /\ TierMonotone
    /\ Returned =>
          LET rows == { [found |-> NearDuplicateFound(scores[i].researcher),
                         m |-> BestM(scores[i].researcher, Req.project_title),
                         ks |-> scores[i].breakdown.keyword_score] : i \in ScoredIdx }
          IN  \A r \in rows :
                  /\ r.found => (RLe(Rat(85, 100), r.m) /\ RLe(RInt(170), r.ks))
                  /\ ~r.found => RLt(r.ks, RInt(170))
                  /\ \A q \in rows :
                        ( /\ Req.project_title # <<>>
                          /\ TierOf(r.found, r.m) = TierOf(q.found, q.m)
                          /\ RLe(r.m, q.m) )
                            => RLe(r.ks, q.ks)

\* One researcher at the bottom of the near-duplicate tier (m = 0.85, 170) beside
\* one in the close tier (m = 0.8, 120).
C5_Witness ==
    /\ Returned
    /\ \E i \in ScoredIdx :
          /\ NearDuplicateFound(scores[i].researcher)
          /\ BestM(scores[i].researcher, Req.project_title) = Rat(85, 100)
          /\ scores[i].breakdown.keyword_score = RInt(170)
    /\ \E i \in ScoredIdx :
          /\ ~NearDuplicateFound(scores[i].researcher)
          /\ scores[i].breakdown.keyword_score = RInt(120)

-----------------------------------------------------------------------------
(* C6: a researcher of researcher_profiles is among the candidates of       *)
(* recommend if and only if the researcher's total score is non-zero: a     *)
(* zero total is excluded, no non-zero total is dropped by the filter, and  *)
(* every returned entry has score > 0.                                      *)

NonZero == {i \in ScoredIdx : scores[i].score # RZero}

Recommended == {Res.recommendations[j].researcher : j \in 1..Len(Res.recommendations)}

C6_ZeroExcluded ==
    Returned =>
        /\ {scores[i].researcher : i \in ScoredIdx} = Range(researcher_profiles.keys)
        /\ Res.total_researchers_scored = Cardinality(NonZero)
        /\ \A j \in 1..Len(Res.recommendations) :
              /\ RLt(RZero, Res.recommendations[j].score)
              /\ \E i \in NonZero :
                    /\ scores[i].researcher = Res.recommendations[j].researcher
                    /\ scores[i].score = Res.recommendations[j].score
        /\ \A i \in ScoredIdx :
              scores[i].score = RZero => scores[i].researcher \notin Recommended
        /\ Req.top_n >= Cardinality(NonZero) =>
              Recommended = {scores[i].researcher : i \in NonZero}

\* A researcher whose only record has another theme, no title similarity and a
\* year outside the window is left out while another researcher is returned.
C6_Witness ==
    /\ Returned
    /\ Res.recommendations # <<>>
    /\ Req.top_n >= Cardinality(NonZero)
    /\ \E i \in ScoredIdx :
          /\ scores[i].score = RZero
          /\ Cardinality(RecordsOf(scores[i].researcher)) = 1
          /\ scores[i].researcher \notin Recommended

-----------------------------------------------------------------------------
(* C7: with an explicit target theme recommend returns that theme verbatim  *)
(* as predicted_theme, does not call the classifier, and scores every       *)
(* researcher against that theme, also when it labels no record.            *)

C7_ExplicitTheme ==
    (Returned /\ Req.target_theme # None) =>
        LET T == Req.target_theme[1]
        IN  /\ Res.predicted_theme = T
            /\ predicted_themes = None
            /\ \A i \in ScoredIdx :
                  <<scores[i].score, scores[i].breakdown>> =
                      _calculate_researcher_score(Engine, scores[i].researcher, T,
                                                  Req.project_title)

\* An explicit theme that labels no record and that the classifier would not predict.
C7_Witness ==
    /\ Returned
    /\ Req.target_theme # None
    /\ \A i \in 1..Len(grants_df) : grants_df[i].Theme # Req.target_theme[1]
    /\ PredictRanking(logistic_model, Req.project_title)[1] # Req.target_theme[1]
    /\ Res.predicted_theme = Req.target_theme[1]
    /\ Res.recommendations # <<>>

-----------------------------------------------------------------------------
(* C8: the recommendations are ordered by total score descending, and       *)
(* entries of equal score are in the order in which their researchers were  *)
(* first seen in the corpus.                                                *)

RECURSIVE Flatten(_)
Flatten(ss) == IF ss = <<>> THEN <<>> ELSE Head(ss) \o Flatten(Tail(ss))

\* Every researcher name of the corpus, in corpus order.
NamesInOrder == Flatten([i \in 1..Len(grants_df) |-> ParseResearchers(grants_df[i].Researchers)])

FirstSeen(R) == CHOOSE k \in 1..Len(NamesInOrder) :
                    NamesInOrder[k] = R /\ \A l \in 1..(k - 1) : NamesInOrder[l] # R

C8_SortedStable ==
    Returned =>
        \A i \in 1..Len(Res.recommendations) : \A j \in 1..Len(Res.recommendations) :
            i < j =>
                LET a == Res.recommendations[i]
                    b == Res.recommendations[j]
                IN  /\ RLe(b.score, a.score)
                    /\ a.score = b.score => FirstSeen(a.researcher) < FirstSeen(b.researcher)

\* Three entries: two of equal score and one of another score.
C8_Witness ==
    /\ Returned
    /\ Len(Res.recommendations) = 3
    /\ \E i \in 1..Len(Res.recommendations) : \E j \in 1..Len(Res.recommendations) :
          i < j /\ Res.recommendations[i].score = Res.recommendations[j].score
    /\ \E i \in 1..Len(Res.recommendations) : \E j \in 1..Len(Res.recommendations) :
          Res.recommendations[i].score # Res.recommendations[j].score

-----------------------------------------------------------------------------
(* C4: if the input title is an exact or near-duplicate of a title of R's   *)
(* history, R is ranked above every researcher who has no near-duplicate    *)
(* title, so the first entry of the recommendations is an author of a       *)
(* near-duplicate record.                                                   *)

\* The researcher scored i-th is ranked above the one scored j-th: a higher score,
\* or the same score and seen first.
RankedAbove(i, j) ==
    \/ RLt(scores[j].score, scores[i].score)
    \/ scores[j].score = scores[i].score /\ i < j

C4_NearDuplicateFirst ==
    (Returned /\ Req.project_title # <<>> /\ Req.top_n >= 1) =>
        \A i \in ScoredIdx :
            HasNearDuplicate(scores[i].researcher, Req.project_title) =>
                /\ \A j \in ScoredIdx :
                      ~HasNearDuplicate(scores[j].researcher, Req.project_title)
                          => RankedAbove(i, j)
                /\ Res.recommendations # <<>>
                /\ HasNearDuplicate(Res.recommendations[1].researcher, Req.project_title)

-----------------------------------------------------------------------------
(* C9: theme_score = 10 x (the number of corpus records whose theme is the  *)
(* resolved theme and whose researcher list contains R), and theme_matches  *)
(* is that number of records, also when a record's researcher list names    *)
(* the same researcher more than once.                                      *)

ThemeRecords(R, T) == {k \in RecordsOf(R) : grants_df[k].Theme = T}

C9_ThemeScoreCountsRecords ==
    Returned =>
        \A i \in ScoredIdx :
            LET n == Cardinality(ThemeRecords(scores[i].researcher, Res.predicted_theme))
            IN  /\ scores[i].breakdown.theme_matches = n
                /\ scores[i].breakdown.theme_score = RInt(10 * n)

-----------------------------------------------------------------------------
(* C10: every researcher listed on a record with N researchers gets the     *)
(* share 100/N for that record whatever the position, and                   *)
(* contribution_score = (average share over the researcher's projects in    *)
(* the resolved theme / 100) x 20, within [0, 20], and 0 exactly when the   *)
(* researcher has no project in the resolved theme.                         *)

ShareOn(k) == Rat(100, Len(ParseResearchers(grants_df[k].Researchers)))

RECURSIVE SumShares(_)
SumShares(K) ==
    IF K = {} THEN RZero
    ELSE LET k == CHOOSE x \in K : TRUE IN RAdd(ShareOn(k), SumShares(K \ {k}))

AverageShare(K) == RDivInt(SumShares(K), Cardinality(K))

SharesAreEqualSplit ==
    \A R \in Range(researcher_profiles.keys) :
        LET projects == researcher_profiles.prof[R].projects
        IN  /\ \A k \in RecordsOf(R) : \E x \in 1..Len(projects) :
                  /\ projects[x].title = grants_df[k].Title
                  /\ projects[x].contribution = ShareOn(k)
            /\ \A x \in 1..Len(projects) : \E k \in RecordsOf(R) :
                  /\ projects[x].title = grants_df[k].Title
                  /\ projects[x].contribution = ShareOn(k)

C10_ContributionScore ==
    Returned =>
        /\ SharesAreEqualSplit
        /\ \A i \in ScoredIdx :
              LET K == ThemeRecords(scores[i].researcher, Res.predicted_theme)
                  cs == scores[i].breakdown.contribution_score
              IN  /\ RLe(RZero, cs) /\ RLe(cs, RInt(20))
                  /\ (cs = RZero) <=> (K = {})
                  /\ K # {} => cs = Times(RDivInt(AverageShare(K), 100), 20)

-----------------------------------------------------------------------------
(* C11: recency_score = 5 x (the number of the researcher's projects with   *)
(* year >= current_year - 3): a project of current_year - 3 counts, one of  *)
(* current_year - 4 does not, and neither the resolved theme nor the input  *)
(* title nor the age inside the window changes the score.                   *)

RecentRecords(R) == {k \in RecordsOf(R) : grants_df[k].Year >= current_year - 3}

C11_RecencyCountsProjects ==
    Returned =>
        \A i \in ScoredIdx :
            scores[i].breakdown.recency_score =
                RInt(5 * Cardinality(RecentRecords(scores[i].researcher)))

-----------------------------------------------------------------------------
(* The last exchange of the server, when /recommend_researchers answered     *)
(* with a result.                                                            *)

Answered == response # None /\ response[1].path = RecommendPath /\ response[1].status = 200
Body == response[1].body

\* The elements of a set of record numbers, smallest first.
RECURSIVE Ascending(_)
Ascending(K) ==
    IF K = {} THEN <<>>
    ELSE <<CHOOSE k \in K : \A l \in K : k <= l>> \o Ascending(K \ {CHOOSE k \in K : \A l \in K : k <= l})

\* The titles, in corpus order, of the records that list R and carry the theme.
PapersOf(R, theme) ==
    [i \in 1..Cardinality({k \in RecordsOf(R) : grants_df[k].Theme = theme}) |->
        grants_df[Ascending({k \in RecordsOf(R) : grants_df[k].Theme = theme})[i]].Title]

(* C12: in every answer of /recommend_researchers that carries a result, the *)
(* related_papers of each returned researcher is the list, in corpus order,  *)
(* of the titles of the records that list the researcher and carry the theme *)
(* the scoring used (the explicit one, else the first predicted one); and    *)
(* the researchers, their order and their scores are those recommend         *)
(* returned, whatever the related_papers are.                                *)
C12_RelatedPapers ==
    Answered =>
        /\ Body.predicted_theme = Res.predicted_theme
        /\ Res.predicted_theme = (IF Req.target_theme # None THEN Req.target_theme[1] ELSE predicted_themes[1][1])
        /\ Len(Body.recommendations) = Len(Res.recommendations)
        /\ \A j \in 1..Len(Body.recommendations) :
              /\ Body.recommendations[j].researcher = Res.recommendations[j].researcher
              /\ Body.recommendations[j].score = Res.recommendations[j].score
              /\ Body.recommendations[j].related_papers =
                    PapersOf(Res.recommendations[j].researcher, Res.predicted_theme)

\* A returned researcher with two related papers, and one with a record of
\* another theme that is left out.
C12_Witness ==
    /\ Answered
    /\ \E j \in 1..Len(Body.recommendations) : Len(Body.recommendations[j].related_papers) = 2
    /\ \E j \in 1..Len(Body.recommendations) :
          Len(Body.recommendations[j].related_papers) < Cardinality(RecordsOf(Body.recommendations[j].researcher))

-----------------------------------------------------------------------------
\* The rows of the file that /add_project appended: the server's initial files
\* hold no record of that code.
AppendedRows == {k \in 1..Len(grants_file) : grants_file[k].Code = <<DQ, "P8", DQ>>}

\* The engine of the last call was built, all of it, from the file as it is.
OneSnapshot ==
    /\ grants_df = _load_grants_data(grants_file)
    /\ researcher_profiles = _build_researcher_profiles(grants_df)
    /\ title_to_idx = TitleToIdx(AllTitles(grants_df))
    /\ title_tfidf.vocabulary = Vocabulary(AllTitles(grants_df))
    /\ \A j \in 1..Len(Body.recommendations) :
          Body.recommendations[j].related_papers = PapersOf(Body.recommendations[j].researcher, Body.predicted_theme)

\* Every researcher of every appended row is scored, the row's theme counted.
AppendedVisible ==
    \A k \in AppendedRows : \A R \in Range(ParseResearchers(grants_df[k].Researchers)) :
        /\ \E i \in ScoredIdx : scores[i].researcher = R
        /\ DictGet(researcher_profiles.prof[R].theme_counts, grants_df[k].Theme, 0) >= 1

(* C13: with the module and the model artifacts in place, once /add_project  *)
(* has appended a record, every /recommend_researchers request scores the    *)
(* researchers with that record included (its researchers are scored, its    *)
(* theme is in their theme counts), and the profiles, the title index and    *)
(* the related_papers of the call all come from the file as it is then.      *)
C13_AppendVisible ==
    (/\ response # None
     /\ response[1].path = RecommendPath
     /\ files.module /\ files.models
     /\ AppendedRows # {}) =>
        /\ response[1].status = 200
        /\ OneSnapshot
        /\ AppendedVisible

-----------------------------------------------------------------------------
(* C14: no step of an engine's life, a run of recommend among them, changes  *)
(* its corpus table, its researcher profiles or its title similarity index,  *)
(* and what a call returns is the value of recommend on that unchanged state *)
(* and the call's (title, theme, top_n): so any sequence of calls leaves the *)
(* state as it was and two calls with the same arguments return the same.    *)
C14_RecommendIsPure ==
    /\ [][UNCHANGED <<grants_df, researcher_profiles, title_tfidf, title_to_idx, logistic_model>>]_vars
    /\ [](Returned => Res = recommend(Engine, Req.project_title, Req.target_theme, Req.top_n))

\* A call that returned recommendations on an engine of several profiles.
C14_Witness ==
    /\ Returned
    /\ Len(researcher_profiles.keys) >= 2
    /\ Len(Res.recommendations) >= 2

-----------------------------------------------------------------------------
(* C15: when the project title has an all-zero vector under the title        *)
(* vectorizer (no word, only stop words, or only words outside the fitted    *)
(* vocabulary), the keyword_score of every researcher scored is 0, a         *)
(* researcher whose history holds that very title included.                  *)
C15_ZeroVectorNoKeyword ==
    (Returned /\ IsZeroVector(Bag(title_tfidf.vocabulary, Req.project_title))) =>
        \A i \in ScoredIdx : scores[i].breakdown.keyword_score = RZero

-----------------------------------------------------------------------------
(* C16: a /recommend_researchers request whose project title is blank, sent  *)
(* to a server that can build its engine, is answered with a recommendation  *)
(* result, and in it every researcher is scored with keyword_score 0.        *)
C16_BlankTitleAnswered ==
    (/\ response # None
     /\ response[1].path = RecommendPath
     /\ FormStrip(response[1].form.project_title) = <<>>
     /\ files.module
     /\ ConstructionError(files, grants_file) = None) =>
        /\ response[1].status = 200
        /\ \A i \in ScoredIdx : scores[i].breakdown.keyword_score = RZero

-----------------------------------------------------------------------------
(* C17: when the similarity computation of one researcher raises during a    *)
(* call (in the transform, the cosine or the near-duplicate check), the call *)
(* still returns: nothing is raised to the caller, that researcher's         *)
(* keyword_score is 0, and every other researcher has the score and the      *)
(* breakdown _calculate_researcher_score gives them without a fault.         *)
C17_FaultIsolated ==
    (request # None /\ (result # None \/ raised # None)) =>
        /\ raised = None
        /\ Returned
        /\ \A i \in ScoredIdx :
              IF scores[i].researcher = Req.fault.researcher
              THEN scores[i].breakdown.keyword_score = RZero
              ELSE scores[i] = Scored(scores[i].researcher,
                                      _calculate_researcher_score(Engine, scores[i].researcher,
                                                                  Res.predicted_theme, Req.project_title))

-----------------------------------------------------------------------------
\* The constructor has run: it returned an engine or it raised.
Built == EngineExists \/ raised # None

(* C18: over a grants file without a record, the model artifacts in place,   *)
(* the constructor returns an engine and raises nothing, and every call of   *)
(* recommend on it returns no recommendation and total_researchers_scored 0. *)
C18_EmptyCorpusEngine ==
    (Built /\ files.grants /\ files.models /\ grants_file = <<>>) =>
        /\ raised = None
        /\ EngineExists
        /\ Returned => (Res.recommendations = <<>> /\ Res.total_researchers_scored = 0)

-----------------------------------------------------------------------------
\* A row of the file without a title, a theme or researchers, and the file
\* without such rows.
Malformed(r) == r.Title = <<>> \/ r.Theme = <<>> \/ r.Authors = <<>>
WellFormedRows(file) == SelectSeq(file, LAMBDA r : ~Malformed(r))

(* C19: over a grants file with a row that lacks its title, its theme or its *)
(* researchers, and whose other rows make a corpus an engine can be built    *)
(* on, the constructor returns an engine and raises nothing, and the table   *)
(* and the profiles of the engine are those of the file without that row: no *)
(* profile and no project come from it, and every other row is loaded.       *)
C19_MalformedRowSkipped ==
    (/\ Built
     /\ files.grants /\ files.models
     /\ \E k \in 1..Len(grants_file) : Malformed(grants_file[k])
     /\ CanFit(AllTitles(_load_grants_data(WellFormedRows(grants_file))))) =>
        /\ raised = None
        /\ EngineExists
        /\ grants_df = _load_grants_data(WellFormedRows(grants_file))
        /\ researcher_profiles = _build_researcher_profiles(_load_grants_data(WellFormedRows(grants_file)))

-----------------------------------------------------------------------------
(* C20: when a model artifact or the grants file is missing, a request to    *)
(* /recommend_researchers is answered with an error and no result: the       *)
(* constructor raises FileNotFoundError, which the handler answers with 500, *)
(* no engine exists after it and recommend has not run.                      *)
C20_MissingFileFails ==
    (/\ response # None
     /\ response[1].path = RecommendPath
     /\ ~files.models \/ ~files.grants) =>
        /\ response[1].status # 200
        /\ ~EngineExists
        /\ result = None
        /\ scores = <<>>
        /\ (files.module /\ FormStrip(response[1].form.project_title) # <<>>) =>
              (response[1].status = 500 /\ raised = Some(FileNotFoundError))

\* A request answered 500 for a missing grants file, the artifacts in place.
C20_Witness ==
    /\ response # None
    /\ response[1].path = RecommendPath
    /\ response[1].status = 500
    /\ raised = Some(FileNotFoundError)
    /\ files.models /\ ~files.grants

-----------------------------------------------------------------------------
\* The researchers scored with a positive total, and the place of each in the
\* full ranking: one more than the number of those ranked above it.
Positive == {i \in ScoredIdx : RLt(RZero, scores[i].score)}
PlaceOf(i) == 1 + Cardinality({j \in Positive : RankedAbove(j, i)})

(* C23: for every top_n >= 0, recommend returns min(top_n, K) entries, K the *)
(* number of researchers with a positive total score; the entries are the    *)
(* first of the full ranking (by score, ties in scoring order), each in its  *)
(* place; and total_researchers_scored is K whatever top_n is.               *)
C23_TopNPrefix ==
    (Returned /\ Req.top_n >= 0) =>
        /\ Len(Res.recommendations) = Min(Req.top_n, Cardinality(Positive))
        /\ Res.total_researchers_scored = Cardinality(Positive)
        /\ \A i \in Positive :
              PlaceOf(i) <= Len(Res.recommendations) =>
                  /\ Res.recommendations[PlaceOf(i)].researcher = scores[i].researcher
                  /\ Res.recommendations[PlaceOf(i)].score = scores[i].score

\* A call whose top_n cuts the ranking: some but not all of the researchers
\* with a positive score are returned, and not every profile has one.
C23_Witness ==
    /\ Returned
    /\ Req.top_n >= 1
    /\ Req.top_n < Cardinality(Positive)
    /\ Len(Res.recommendations) = Req.top_n
    /\ Res.total_researchers_scored > Req.top_n
    /\ Cardinality(Positive) < Len(scores)

-----------------------------------------------------------------------------
\* A form of /add_project with a blank field.
BlankField(form) ==
    \/ FormStrip(form.code) = <<>>
    \/ FormStrip(form.theme) = <<>>
    \/ FormStrip(form.title) = <<>>
    \/ FormStrip(form.authors) = <<>>

\* The step leaves the corpus file as it is, and no file appears.
CorpusUnchanged == grants_file' = grants_file /\ files' = files

\* The step adds one record after the records of the file, which stay.
OneRecordAppended ==
    /\ Len(grants_file') = Len(grants_file) + 1
    /\ SubSeq(grants_file', 1, Len(grants_file)) = grants_file
    /\ files' = files

(* C22: every step of the server changes the corpus file by a whole-record   *)
(* append or not at all: /add_project with every field non-blank and the     *)
(* file in place answers 200 and adds exactly one record after the existing  *)
(* ones, which stay as they were; with a blank field it answers 400 and with *)
(* the file missing 500, the corpus unchanged and no file created; and       *)
(* /recommend_researchers never changes the corpus.                          *)
C22_WholeRecordAppend ==
    [][/\ response'[1].path = RecommendPath => CorpusUnchanged
       /\ (response'[1].path = AddPath /\ BlankField(response'[1].form)) =>
              (response'[1].status = 400 /\ CorpusUnchanged)
       /\ (response'[1].path = AddPath /\ ~BlankField(response'[1].form) /\ ~files.grants) =>
              (response'[1].status = 500 /\ CorpusUnchanged)
       /\ (response'[1].path = AddPath /\ ~BlankField(response'[1].form) /\ files.grants) =>
              (response'[1].status = 200 /\ OneRecordAppended)]_vars

-----------------------------------------------------------------------------
\* The most probable label the classifier m gives the title of the call, and
\* what the call would return on the same engine with m as its classifier.
TopLabel(m) == PredictRanking(m, Req.project_title)[1]
ResultWith(m) ==
    recommend([Engine EXCEPT !.logistic_model = m], Req.project_title, Req.target_theme, Req.top_n)

(* C21: when no theme is given, the theme of the result is the classifier's  *)
(* most probable label for the title, and the result is the one the call     *)
(* returns with any other classifier that gives the title the same most      *)
(* probable label, whatever its second label is.                             *)
C21_TopLabelOnly ==
    (Returned /\ Req.target_theme = None) =>
        /\ Res.predicted_theme = TopLabel(logistic_model)
        /\ \A m \in ClassifierPool :
              TopLabel(m) = TopLabel(logistic_model) => ResultWith(m) = Res

\* A call without theme that returned recommendations, with a classifier of
\* the same first label and another second label, and with a classifier of
\* another first label, on which the result is another.
C21_Witness ==
    /\ Returned
    /\ Req.target_theme = None
    /\ Res.recommendations # <<>>
    /\ \E m \in ClassifierPool :
          /\ TopLabel(m) = TopLabel(logistic_model)
          /\ PredictRanking(m, Req.project_title)[2] # PredictRanking(logistic_model, Req.project_title)[2]
    /\ \E m \in ClassifierPool :
          /\ TopLabel(m) # TopLabel(logistic_model)
          /\ ResultWith(m).recommendations # Res.recommendations

====
